---------------------------- MODULE Spec2Model ----------------------------
(***************************************************************************)
(* generate-secure-pillar: the recursive value walker of package sls       *)
(* (src/sls.go), the crypto provider it calls (src/pki/pki.go) and the     *)
(* batch drivers (Sls.ProcessDir in src/sls.go, processFiles / rotate in   *)
(* src/main.go) and the single-file commands encrypt all / decrypt all     *)
(* with safeWrite (src/main.go).                                           *)
(*                                                                         *)
(* A YAML value is a record tagged by t:                                   *)
(*   "nil"  a nil interface{}            "int"  any non-string scalar      *)
(*   "str"  a string; hdr says where the text "-----BEGIN PGP MESSAGE-----"*)
(*          occurs in it ("none", "infix", "prefix"), dec what             *)
(*          Pki.DecryptSecret does with such a non-message ("err","panic") *)
(*   "ct"   an armored PGP message to recipient key `key` of plaintext pt  *)
(*   "seq"  a []interface{}              "map"  a map[interface{}]...      *)
(* Yaml.Values (the document root) is a function from top-level keys.      *)
(***************************************************************************)
EXTENDS Integers, Sequences, FiniteSets, TLC

(* ------------------------------ bounds -------------------------------- *)
\* most files under the directory given to a batch command
MaxFiles == 2
\* most processing units (runtime.GOMAXPROCS(0)) the pool is sized to
MaxCores == 2
\* most calls of Sls.PerformAction on one Sls
MaxWalks == 2

(* --------------------------- program constants ------------------------ *)
encrypt == "encrypt"
decrypt == "decrypt"
validate == "validate"
Actions == {encrypt, decrypt, validate}
validAction(action) == action \in Actions

\* the recipient key configured with -k (Pki.PublicKey) and the private keys
\* of the secret key ring; "kX" is a recipient whose private key is absent
NewKey == "kNew"
SecRing == {"kOld", "kNew"}

(* ------------------------------ values -------------------------------- *)
Nil == [t |-> "nil"]
NonStr == [t |-> "int"]
Str(txt, hdr, dec) == [t |-> "str", txt |-> txt, hdr |-> hdr, dec |-> dec]
Plain(txt) == Str(txt, "none", "err")
Ct(key, pt) == [t |-> "ct", key |-> key, pt |-> pt]
\* the "<hex key id>: <identity>" string Pki.keyStringForID builds
KeyLine(key) == [t |-> "info", key |-> key]
SeqV(items) == [t |-> "seq", items |-> items]
MapV(kv) == [t |-> "map", kv |-> kv]
\* logger.Fatal (os.Exit(1)) and a runtime panic end the process
FATAL == [t |-> "FATAL"]
PANIC == [t |-> "PANIC"]
\* a value the type switch has no case for is left out of the result
DROP == [t |-> "DROP"]
IsCrash(v) == v.t \in {"FATAL", "PANIC"}
EmptyMap == [k \in {} |-> Nil]

IsString(v) == v.t \in {"str", "ct"}

(* ------------------------------ leaves -------------------------------- *)
\* strings.Contains(str, pgpHeader): an armored message begins with it
isEncrypted(str) == str.t = "ct" \/ (str.t = "str" /\ str.hdr # "none")

\* Pki.EncryptSecret: an armored message to the configured key; any failure
\* of the primitive is logger.Fatal
EncryptSecret(plainText, keyOK) ==
    IF keyOK THEN Ct(NewKey, plainText) ELSE FATAL

\* Pki.DecryptSecret: [plain, err]. Every error return hands back cipherText;
\* armor.Decode returning no block makes block.Type a nil dereference.
DecryptSecret(cipherText) ==
    IF cipherText.t = "ct"
    THEN IF cipherText.key \in SecRing
         THEN [plain |-> cipherText.pt, err |-> FALSE]
         ELSE [plain |-> cipherText, err |-> TRUE]
    ELSE IF cipherText.dec = "panic"
         THEN [plain |-> PANIC, err |-> TRUE]
         ELSE [plain |-> cipherText, err |-> TRUE]

\* Sls.decryptVal: the error is logged, the value DecryptSecret returned kept
decryptVal(strVal) ==
    IF isEncrypted(strVal) THEN DecryptSecret(strVal).plain ELSE strVal

\* Pki.KeyUsedForEncryptedFile + Sls.keyInfo: "" for a non-message, the
\* "<key id>: <identity>" line of the recipient, logger.Fatal on any error
keyInfo(val) ==
    IF ~isEncrypted(val) THEN Plain("")
    ELSE IF val.t = "ct" /\ val.key \in SecRing
         THEN KeyLine(val.key)
         ELSE FATAL

\* the string case of Sls.ProcessValues and of Sls.doMap
leafValue(strVal, action, keyOK) ==
    CASE action = decrypt -> decryptVal(strVal)
      [] action = encrypt -> IF ~isEncrypted(strVal)
                             THEN EncryptSecret(strVal, keyOK)
                             ELSE strVal
      [] action = validate -> keyInfo(strVal)
      [] OTHER -> strVal

\* the string case of Sls.doSlice: `thing` stays nil when encrypt skips
leafItem(strVal, action, keyOK) ==
    CASE action = decrypt -> decryptVal(strVal)
      [] action = encrypt -> IF ~isEncrypted(strVal)
                             THEN EncryptSecret(strVal, keyOK)
                             ELSE Nil
      [] action = validate -> keyInfo(strVal)
      [] OTHER -> Nil

(* ------------------------------ walker -------------------------------- *)
\* All orders a Go map range may visit the key set S in
RECURSIVE Orders(_)
Orders(S) ==
    IF S = {} THEN {<<>>}
    ELSE UNION {{<<k>> \o o : o \in Orders(S \ {k})} : k \in S}

RECURSIVE doSlice(_, _, _), doMapOrd(_, _, _, _), doMap(_, _, _)

\* one element of the range in Sls.doSlice; reflect.TypeOf(nil).Kind() panics
sliceItem(item, action, keyOK) ==
    CASE item.t = "nil" -> {PANIC}
      [] item.t = "seq" -> doSlice(item.items, action, keyOK)
      [] item.t = "map" -> doMap(item.kv, action, keyOK)
      [] IsString(item) -> {leafItem(item, action, keyOK)}
      [] OTHER -> {DROP}

\* Sls.doSlice: the set of values it can return for the items (a crash is its
\* own result); the choice is the visiting order of the maps beneath
doSlice(items, action, keyOK) ==
    IF items = <<>> THEN {SeqV(<<>>)}
    ELSE UNION {
           IF IsCrash(h) THEN {h}
           ELSE {IF IsCrash(r) THEN r
                 ELSE IF h = DROP THEN r
                 ELSE SeqV(<<h>> \o r.items)
                    : r \in doSlice(Tail(items), action, keyOK)}
           : h \in sliceItem(Head(items), action, keyOK)}

\* one value of the range in Sls.doMap
mapItem(val, action, keyOK) ==
    CASE val.t = "seq" -> doSlice(val.items, action, keyOK)
      [] val.t = "map" -> doMap(val.kv, action, keyOK)
      [] IsString(val) -> {leafValue(val, action, keyOK)}
      [] OTHER -> {DROP}

\* Sls.doMap visiting the keys in the order ord: a nil value returns what
\* was collected before it
doMapOrd(vals, ord, action, keyOK) ==
    IF ord = <<>> THEN {MapV(EmptyMap)}
    ELSE IF vals[Head(ord)].t = "nil" THEN {MapV(EmptyMap)}
    ELSE UNION {
           IF IsCrash(h) THEN {h}
           ELSE {IF IsCrash(r) THEN r
                 ELSE IF h = DROP THEN r
                 ELSE MapV((Head(ord) :> h) @@ r.kv)
                    : r \in doMapOrd(vals, Tail(ord), action, keyOK)}
           : h \in mapItem(vals[Head(ord)], action, keyOK)}

doMap(vals, action, keyOK) ==
    UNION {doMapOrd(vals, ord, action, keyOK) : ord \in Orders(DOMAIN vals)}

\* Sls.ProcessValues: nil and the kinds without a case give nil
ProcessValues(vals, action, keyOK) ==
    CASE vals.t = "nil" -> {Nil}
      [] vals.t = "seq" -> doSlice(vals.items, action, keyOK)
      [] vals.t = "map" -> doMap(vals.kv, action, keyOK)
      [] IsString(vals) -> {leafValue(vals, action, keyOK)}
      [] OTHER -> {Nil}

(* ------------------------------ files --------------------------------- *)
\* The bytes of a document: its lines as bufio.Scanner sees them ("marker"
\* the #!yaml|gpg line, "blank", "text", "include" a line holding include:,
\* "long" a line over the scanner's 64 KiB token limit), what yaml.Unmarshal
\* makes of them (syn: "ok", "syntax" nothing decoded, "type" an error after
\* the decodable part was stored) and the values they hold.
Bytes(lines, syn, doc) == [lines |-> lines, syn |-> syn, doc |-> doc]
\* the zero value of bytes.Buffer, and a file of no bytes
EmptyBuffer == Bytes(<<>>, "ok", EmptyMap)
Text(doc) == Bytes(<<"marker", "blank", "text">>, "ok", doc)

\* a path: kind "file" (regular), "dir" or "none" (no such file); r and w
\* say whether this process may open it for reading and for writing
File(kind, r, w, data) == [kind |-> kind, r |-> r, w |-> w, data |-> data]
Regular(data) == File("file", TRUE, TRUE, data)
NoFile == File("none", TRUE, TRUE, EmptyBuffer)

\* Sls.ScanForIncludes: "" for nil, else the error
RECURSIVE ScanForIncludes(_)
ScanForIncludes(lines) ==
    IF lines = <<>> THEN ""
    ELSE IF Head(lines) = "long" THEN "token too long"
    ELSE IF Head(lines) = "include" THEN "contains include directives"
    ELSE ScanForIncludes(Tail(lines))

\* CheckForFile: "" for nil
CheckForFile(file) ==
    CASE file.kind = "none" -> "cannot stat"
      [] file.kind = "dir" -> "is a directory"
      [] OTHER -> ""

\* Sls.ReadBytes: s.Yaml is replaced by yaml.New() before the scan, and
\* yamlv2.Unmarshal fills s.Yaml.Values
ReadBytes(buf) ==
    IF ScanForIncludes(buf.lines) # ""
    THEN [err |-> ScanForIncludes(buf.lines), vals |-> EmptyMap]
    ELSE CASE buf.syn = "ok" -> [err |-> "", vals |-> buf.doc]
           [] buf.syn = "type" -> [err |-> "yaml: unmarshal errors", vals |-> buf.doc]
           [] OTHER -> [err |-> "yaml: syntax", vals |-> EmptyMap]

\* Sls.ReadSlsFile on an Sls whose Yaml.Values are vals
ReadSlsFile(file, vals) ==
    IF ~file.r THEN [err |-> "permission denied", vals |-> vals]
    ELSE ReadBytes(file.data)

\* Sls.FormatBuffer writing the marker whatever the action
FormatBuffer_AlwaysMarker(vals, action) ==
    Bytes(<<"marker", "blank", "text">>, "ok", vals)

\* Sls.FormatBuffer: the marker unless the action is validate, then the
\* marshalled values ("{}" for none)
FormatBuffer(vals, action) ==
    Bytes(IF action # validate THEN <<"marker", "blank", "text">> ELSE <<"text">>,
          "ok", vals)

\* strings.Split(path, ":") for the keys the documents here use
Split(path) ==
    CASE path = "grp:sub" -> <<"grp", "sub">>
      [] OTHER -> <<path>>

\* Yaml.Get(route...): the value the route leads to from v, nil when a step
\* of it is not a key of a mapping
RECURSIVE Dig(_, _)
Dig(v, route) ==
    IF route = <<>> THEN v
    ELSE IF v.t = "map" /\ Head(route) \in DOMAIN v.kv
         THEN Dig(v.kv[Head(route)], Tail(route))
         ELSE Nil

\* Sls.GetValueFromPath: the path is split at every ':' and the parts are
\* the route handed to Yaml.Get
GetValueFromPath(vals, key) == Dig(MapV(vals), Split(key))

\* one key of the range in Sls.PerformAction
topItem(vals, key, scope, action, keyOK) ==
    IF scope # "" /\ scope # key
    THEN {GetValueFromPath(vals, key)}
    ELSE ProcessValues(GetValueFromPath(vals, key), action, keyOK)

RECURSIVE performOrd(_, _, _, _, _)
performOrd(vals, ord, scope, action, keyOK) ==
    IF ord = <<>> THEN {MapV(EmptyMap)}
    ELSE UNION {
           IF IsCrash(h) THEN {h}
           ELSE {IF IsCrash(r) THEN r ELSE MapV((Head(ord) :> h) @@ r.kv)
                    : r \in performOrd(vals, Tail(ord), scope, action, keyOK)}
           : h \in topItem(vals, Head(ord), scope, action, keyOK)}

\* Sls.PerformAction on Yaml.Values vals: the results it can have, each
\* [crash, vals (the new Yaml.Values), buf (the buffer returned)]
PerformAction(vals, scope, action, keyOK) ==
    IF ~validAction(action)
    THEN {[crash |-> "", vals |-> vals, buf |-> FormatBuffer(vals, action)]}
    ELSE
    {IF IsCrash(m)
     THEN [crash |-> m.t, vals |-> vals, buf |-> EmptyBuffer]
     ELSE [crash |-> "", vals |-> m.kv, buf |-> FormatBuffer(m.kv, action)]
       : m \in UNION {performOrd(vals, ord, scope, action, keyOK)
                         : ord \in Orders(DOMAIN vals)}}

\* Sls.FileAction on an Sls whose Yaml.Values are vals: the results it can
\* have, each [crash, err, vals, buf]
FileAction(file, vals, scope, action, keyOK) ==
    IF CheckForFile(file) # ""
    THEN {[crash |-> "", err |-> CheckForFile(file), vals |-> vals,
           buf |-> EmptyBuffer]}
    ELSE IF ReadSlsFile(file, vals).err # ""
    THEN {[crash |-> "", err |-> ReadSlsFile(file, vals).err,
           vals |-> ReadSlsFile(file, vals).vals, buf |-> EmptyBuffer]}
    ELSE {[crash |-> p.crash, err |-> "", vals |-> p.vals, buf |-> p.buf]
            : p \in PerformAction(ReadSlsFile(file, vals).vals, scope, action, keyOK)}

\* WriteSlsFile: "" when ioutil.WriteFile can open the path, else the error
\* that is logger.Fatal
WriteError(file) ==
    CASE file.kind = "dir" -> "is a directory"
      [] file.kind = "file" /\ ~file.w -> "permission denied"
      [] OTHER -> ""
\* ioutil.WriteFile opens with O_CREATE|O_TRUNC (mode 0644), then writes
Truncated(file) ==
    IF file.kind = "none" THEN Regular(EmptyBuffer)
    ELSE [file EXCEPT !.data = EmptyBuffer]
Written(file, buffer) == [Truncated(file) EXCEPT !.data = buffer]

(* ------------------------------ inputs -------------------------------- *)
c1 == Ct("kOld", Plain("s1"))
\* a message to a recipient whose private key the ring lacks
cx == Ct("kX", Plain("s1"))
\* a message whose plaintext holds the text -----BEGIN PGP MESSAGE-----
ch == Ct("kOld", Str("s2", "infix", "err"))

DocGood == [secure_vars |-> MapV([a |-> c1, b |-> Plain("p")]),
            other |-> MapV([c |-> c1])]
DocCipher == [secure_vars |-> MapV([a |-> c1])]
DocUndec == [secure_vars |-> MapV([a |-> c1, b |-> cx])]
DocInt == [secure_vars |-> MapV([a |-> c1, port |-> NonStr])]
DocHdr == [secure_vars |-> MapV([a |-> ch])]
DocSeq == [secure_vars |-> SeqV(<<c1, Plain("p")>>), other |-> Plain("q")]
DocNil == [secure_vars |-> MapV([a |-> c1, n |-> Nil]), other |-> Nil]

IncludeFile == Regular(Bytes(<<"include", "text">>, "ok", DocGood))
LongFile == Regular(Bytes(<<"marker", "blank", "long">>, "ok", DocCipher))
SyntaxFile == Regular(Bytes(<<"text">>, "syntax", DocCipher))
TypeFile == Regular(Bytes(<<"text">>, "type", DocCipher))
Unreadable(w) == File("file", FALSE, w, Text(DocCipher))
ReadOnly == File("file", TRUE, FALSE, Text(DocCipher))

\* documents for the walker alone
DocPlain == [secure_vars |-> MapV([a |-> Plain("p"),
                                   l |-> SeqV(<<Plain("p"), Plain("q")>>)]),
             other |-> Plain("q")]
\* a top-level key that holds a ':'
DocColon == ("grp:sub" :> Plain("q")) @@ [secure_vars |-> MapV([a |-> Plain("p")])]
\* keys named like the scope beneath the top level
DocNested == [secure_vars |-> MapV([secure_vars |-> Plain("p")]),
              other |-> MapV([secure_vars |-> cx, b |-> Plain("q")])]
\* plaintexts that hold the header text after other characters
DocPlainHdr == [secure_vars |-> SeqV(<<Str("s2", "infix", "err")>>),
                other |-> MapV([a |-> Str("s3", "infix", "panic")])]
\* a sequence with a nil element
DocSeqNil == [secure_vars |-> SeqV(<<Plain("p"), Nil, c1>>)]
WalkDocs == {DocGood, DocCipher, DocUndec, DocInt, DocHdr, DocSeq, DocNil,
             DocPlain, DocColon, DocNested, DocPlainHdr, DocSeqNil}

\* the files a single-file rotation is tried on
OneFiles ==
    {Regular(Text(d)) : d \in {DocGood, DocCipher, DocUndec, DocInt, DocHdr,
                               DocSeq, DocNil}}
    \cup {IncludeFile, LongFile, SyntaxFile, TypeFile, Unreadable(TRUE),
          Unreadable(FALSE), ReadOnly, NoFile,
          File("dir", TRUE, TRUE, EmptyBuffer), Regular(EmptyBuffer)}
\* the files a rotated directory holds
DirFiles == {Regular(Text(DocGood)), Regular(Text(DocUndec)), IncludeFile}
\* the files a swept directory holds
SweepFiles ==
    {Regular(Text(d)) : d \in {DocGood, DocUndec, DocInt}}
    \cup {IncludeFile, LongFile, SyntaxFile, Unreadable(TRUE),
          Unreadable(FALSE)}

(* ------------------------------ state --------------------------------- *)
VARIABLES
    cmd,      \* the command: "rotateFile", "rotateDir", "sweep" (a recurse
              \* subcommand), "file" (encrypt all / decrypt all) or "walk"
              \* (calls of Sls.PerformAction on one Sls)
    scope,    \* Sls.TopLevelElement ("" for none)
    keyOK,    \* whether Pki.PublicKey can be encrypted to
    count,    \* the number of files FindSlsFiles returned (files 1..count)
    cores,    \* runtime.GOMAXPROCS(0)
    disk,     \* the file at each path
    disk0,    \* the file at each path when the command started
    limChan,  \* [len, cap, closed]: the buffered channel of slots
    drv,      \* the driver: [pc, next (the file the range is at), dir (what
              \* os.Stat finds at the path given with -d)]
    wk,       \* per file, the goroutine running Sls.RotateFile on it
    sw,       \* Sls.ProcessDir: [action, next, vals (s.Yaml.Values), log]
    proc      \* the process: "run", "exit", "FATAL" (logger.Fatal), "PANIC"

vars == <<cmd, scope, keyOK, count, cores, disk, disk0, limChan, drv, wk, sw, proc>>

Idle == [pc |-> "idle", vals |-> EmptyMap, err |-> "", buf |-> EmptyBuffer,
         writes |-> 0, sent |-> 0, encFailed |-> FALSE]
NoSweep == [action |-> "", next |-> 1, vals |-> EmptyMap, log |-> <<>>]

Scopes == {"", "secure_vars"}
\* what the path given with -d can be: a directory, the directory "..",
\* a regular file, or nothing
DirKinds == {"dir", "..", "file", "none"}

(* --------------------------- key rotation ----------------------------- *)
\* the rotate command (main.go): -f runs Sls.RotateFile in the calling
\* goroutine on a channel of capacity 1, -d runs rotateFiles
InitRotate ==
    /\ cmd \in {"rotateFile", "rotateDir"}
    /\ scope \in Scopes
    /\ keyOK \in BOOLEAN
    /\ count \in 0..MaxFiles
    /\ cores \in 1..MaxCores
    /\ cmd = "rotateFile" => count = 1 /\ cores = 1
    /\ disk \in [1..count -> IF cmd = "rotateFile" THEN OneFiles ELSE DirFiles]
    /\ disk0 = disk
    /\ limChan = [len |-> 0, cap |-> IF cmd = "rotateFile" THEN 1 ELSE cores,
                  closed |-> FALSE]
    /\ \E d \in DirKinds :
         /\ cmd = "rotateFile" => d = "dir"
         /\ d = "none" => count = 0
         /\ d = "file" => count = 1
         /\ drv = [pc |-> IF cmd = "rotateFile" THEN "recv" ELSE "stat",
                   next |-> 1, dir |-> d]
    /\ wk = [f \in 1..count |->
               IF cmd = "rotateFile" THEN [Idle EXCEPT !.pc = "read"] ELSE Idle]
    /\ sw = NoSweep
    /\ proc = "run"

\* rotateFiles with the count test of processFiles left out
RotateStat_NoCount ==
    /\ proc = "run" /\ cmd = "rotateDir" /\ drv.pc = "stat"
    /\ IF drv.dir # "dir"
       THEN proc' = "FATAL" /\ drv' = drv
       ELSE proc' = proc /\ drv' = [drv EXCEPT !.pc = "fill"]
    /\ UNCHANGED <<cmd, scope, keyOK, count, cores, disk, disk0, limChan, wk, sw>>

\* rotateFiles: os.Stat, info.IsDir() && info.Name() != ".."; then in
\* processFiles sls.FindSlsFiles and the count == 0 test. Each failure is
\* logger.Fatalf
RotateStat ==
    /\ proc = "run" /\ cmd = "rotateDir" /\ drv.pc = "stat"
    /\ IF drv.dir # "dir" \/ count = 0
       THEN proc' = "FATAL" /\ drv' = drv
       ELSE proc' = proc /\ drv' = [drv EXCEPT !.pc = "fill"]
    /\ UNCHANGED <<cmd, scope, keyOK, count, cores, disk, disk0, limChan, wk, sw>>

\* processFiles: limChan := make(chan bool, cores), filled with cores slots
Fill ==
    /\ proc = "run" /\ drv.pc = "fill"
    /\ limChan' = [limChan EXCEPT !.len = cores]
    /\ drv' = [drv EXCEPT !.pc = "loop"]
    /\ UNCHANGED <<cmd, scope, keyOK, count, cores, disk, disk0, wk, sw, proc>>

\* processFiles, one pass of the range: <-limChan, sls.New, go s.RotateFile
Dispatch_NoAcquire ==
    /\ proc = "run" /\ drv.pc = "loop" /\ drv.next <= count
    /\ wk' = [wk EXCEPT ![drv.next].pc = "read"]
    /\ drv' = [drv EXCEPT !.next = @ + 1]
    /\ UNCHANGED <<cmd, scope, keyOK, count, cores, disk, disk0, limChan, sw, proc>>

Dispatch ==
    /\ proc = "run" /\ drv.pc = "loop" /\ drv.next <= count
    /\ limChan.len > 0
    /\ limChan' = [limChan EXCEPT !.len = @ - 1]
    /\ wk' = [wk EXCEPT ![drv.next].pc = "read"]
    /\ drv' = [drv EXCEPT !.next = @ + 1]
    /\ UNCHANGED <<cmd, scope, keyOK, count, cores, disk, disk0, sw, proc>>

\* the rotate action after s.RotateFile returned: <-limChan
Recv ==
    /\ proc = "run" /\ drv.pc = "recv"
    /\ wk[1].pc = "done" /\ limChan.len > 0
    /\ limChan' = [limChan EXCEPT !.len = @ - 1]
    /\ drv' = [drv EXCEPT !.pc = "recvd"]
    /\ UNCHANGED <<cmd, scope, keyOK, count, cores, disk, disk0, wk, sw, proc>>

\* close(limChan): after the range in processFiles, after <-limChan in rotate
Close ==
    /\ proc = "run"
    /\ \/ drv.pc = "loop" /\ drv.next > count
       \/ drv.pc = "recvd"
    /\ limChan' = [limChan EXCEPT !.closed = TRUE]
    /\ drv' = [drv EXCEPT !.pc = "closed"]
    /\ UNCHANGED <<cmd, scope, keyOK, count, cores, disk, disk0, wk, sw, proc>>

\* the action returns nil and main returns: the process ends, and with it
\* every goroutine still running
Return ==
    /\ proc = "run" /\ drv.pc = "closed"
    /\ proc' = "exit"
    /\ UNCHANGED <<cmd, scope, keyOK, count, cores, disk, disk0, limChan, drv, wk, sw>>

\* Sls.RotateFile's first step with one Sls shared by all the workers: the
\* values read become the values of every worker
WDecrypt_SharedSls(f) ==
    /\ proc = "run" /\ wk[f].pc = "read"
    /\ \E o \in FileAction(disk[f], EmptyMap, scope, decrypt, keyOK) :
         IF o.crash # ""
         THEN /\ proc' = o.crash
              /\ wk' = [wk EXCEPT ![f].pc = "dead"]
         ELSE /\ proc' = proc
              /\ wk' = [g \in 1..count |->
                          IF g = f
                          THEN [wk[g] EXCEPT !.pc = "enc", !.vals = o.vals,
                                             !.err = o.err]
                          ELSE [wk[g] EXCEPT !.vals = o.vals]]
    /\ UNCHANGED <<cmd, scope, keyOK, count, cores, disk, disk0, limChan, drv, sw>>

\* Sls.RotateFile: _, err := s.PlainTextYamlBuffer(file); the error is logged
WDecrypt(f) ==
    /\ proc = "run" /\ wk[f].pc = "read"
    /\ \E o \in FileAction(disk[f], EmptyMap, scope, decrypt, keyOK) :
         IF o.crash # ""
         THEN /\ proc' = o.crash
              /\ wk' = [wk EXCEPT ![f].pc = "dead"]
         ELSE /\ proc' = proc
              /\ wk' = [wk EXCEPT ![f].pc = "enc", ![f].vals = o.vals,
                                  ![f].err = o.err]
    /\ UNCHANGED <<cmd, scope, keyOK, count, cores, disk, disk0, limChan, drv, sw>>

\* Sls.RotateFile: buffer := s.PerformAction("encrypt")
WEncrypt_LogOnly(f) ==
    /\ proc = "run" /\ wk[f].pc = "enc"
    /\ \E o \in PerformAction(wk[f].vals, scope, encrypt, keyOK) :
         /\ proc' = IF o.crash = "PANIC" THEN "PANIC" ELSE proc
         /\ wk' = [wk EXCEPT ![f].pc = IF o.crash = "PANIC" THEN "dead" ELSE "open",
                             ![f].encFailed = (o.crash = "FATAL"),
                             ![f].vals = o.vals,
                             ![f].buf = FormatBuffer(o.vals, encrypt)]
    /\ UNCHANGED <<cmd, scope, keyOK, count, cores, disk, disk0, limChan, drv, sw>>

WEncrypt(f) ==
    /\ proc = "run" /\ wk[f].pc = "enc"
    /\ \E o \in PerformAction(wk[f].vals, scope, encrypt, keyOK) :
         IF o.crash # ""
         THEN /\ proc' = o.crash
              /\ wk' = [wk EXCEPT ![f].pc = "dead",
                                  ![f].encFailed = (o.crash = "FATAL")]
         ELSE /\ proc' = proc
              /\ wk' = [wk EXCEPT ![f].pc = "open", ![f].vals = o.vals,
                                  ![f].buf = o.buf]
    /\ UNCHANGED <<cmd, scope, keyOK, count, cores, disk, disk0, limChan, drv, sw>>

\* Sls.RotateFile: WriteSlsFile(buffer, file), the open that truncates
WOpen(f) ==
    /\ proc = "run" /\ wk[f].pc = "open"
    /\ IF WriteError(disk[f]) # ""
       THEN /\ proc' = "FATAL"
            /\ wk' = [wk EXCEPT ![f].pc = "dead"]
            /\ disk' = disk
       ELSE /\ proc' = proc
            /\ wk' = [wk EXCEPT ![f].pc = "data"]
            /\ disk' = [disk EXCEPT ![f] = Truncated(@)]
    /\ UNCHANGED <<cmd, scope, keyOK, count, cores, disk0, limChan, drv, sw>>

\* Sls.RotateFile: WriteSlsFile(buffer, file), the write of the buffer
WData(f) ==
    /\ proc = "run" /\ wk[f].pc = "data"
    /\ disk' = [disk EXCEPT ![f] = Written(@, wk[f].buf)]
    /\ wk' = [wk EXCEPT ![f].pc = "send", ![f].writes = @ + 1]
    /\ UNCHANGED <<cmd, scope, keyOK, count, cores, disk0, limChan, drv, sw, proc>>

\* Sls.RotateFile: limChan <- true; a send on a closed channel panics
WSend(f) ==
    /\ proc = "run" /\ wk[f].pc = "send"
    /\ IF limChan.closed
       THEN /\ proc' = "PANIC"
            /\ wk' = [wk EXCEPT ![f].pc = "sendpanic"]
            /\ limChan' = limChan
       ELSE /\ limChan.len < limChan.cap
            /\ proc' = proc
            /\ wk' = [wk EXCEPT ![f].pc = "done", ![f].sent = @ + 1]
            /\ limChan' = [limChan EXCEPT !.len = @ + 1]
    /\ UNCHANGED <<cmd, scope, keyOK, count, cores, disk, disk0, drv, sw>>

NextRotate ==
    \/ RotateStat \/ Fill \/ Dispatch \/ Recv \/ Close \/ Return
    \/ \E f \in 1..count : WDecrypt(f)
    \/ \E f \in 1..count : WEncrypt(f)
    \/ \E f \in 1..count : WOpen(f)
    \/ \E f \in 1..count : WData(f)
    \/ \E f \in 1..count : WSend(f)

SpecRotate == InitRotate /\ [][NextRotate]_vars

\* the goroutine of the command, and the goroutine rotating file f
DriverStep == RotateStat \/ Fill \/ Dispatch \/ Recv \/ Close \/ Return
WorkerStep(f) == WDecrypt(f) \/ WEncrypt(f) \/ WOpen(f) \/ WData(f) \/ WSend(f)
\* the Go scheduler runs every goroutine that stays runnable
SpecRotateFair ==
    /\ InitRotate /\ [][NextRotate]_vars
    /\ WF_vars(DriverStep)
    /\ WF_vars(\E f \in 1..count : WorkerStep(f))

(* -------------------------- directory sweep --------------------------- *)
\* encrypt recurse / decrypt recurse / keys recurse: one Sls for the run
InitSweep ==
    /\ cmd = "sweep"
    /\ scope \in Scopes
    /\ keyOK \in BOOLEAN
    /\ count \in 0..MaxFiles
    /\ cores = 1
    /\ disk \in [1..count -> SweepFiles]
    /\ disk0 = disk
    /\ limChan = [len |-> 0, cap |-> 1, closed |-> FALSE]
    /\ \E d \in DirKinds :
         /\ d = "none" => count = 0
         /\ d = "file" => count = 1
         /\ drv = [pc |-> "stat", next |-> 1, dir |-> d]
    /\ wk = [f \in 1..count |-> Idle]
    /\ sw \in {[NoSweep EXCEPT !.action = a] : a \in Actions}
    /\ proc = "run"

\* a pass of the range that hands the buffer to WriteSlsFile for validate too
SweepWrite_Always(file, o, action) == Written(file, o.buf)

\* what one pass of the range in Sls.ProcessDir leaves of the file, given
\* the result o of the File Orchestrator: the buffer is written before err
\* is looked at, and validate prints it instead
SweepWrite(file, o, action) ==
    IF action = validate THEN file ELSE Written(file, o.buf)
\* whether that WriteSlsFile ends in logger.Fatal
SweepWriteFails(file, action) ==
    action # validate /\ WriteError(file) # ""

\* Sls.ProcessDir: os.Stat, info.IsDir() && info.Name() != "..",
\* FindSlsFiles and the count == 0 test. Each failure is logger.Fatalf
SweepStat ==
    /\ proc = "run" /\ cmd = "sweep" /\ drv.pc = "stat"
    /\ IF drv.dir # "dir" \/ count = 0
       THEN proc' = "FATAL" /\ drv' = drv
       ELSE proc' = proc /\ drv' = [drv EXCEPT !.pc = "range"]
    /\ UNCHANGED <<cmd, scope, keyOK, count, cores, disk, disk0, limChan, wk, sw>>

\* Sls.ProcessDir, one pass of the range over slsFiles
SweepFile ==
    /\ proc = "run" /\ cmd = "sweep" /\ drv.pc = "range" /\ sw.next <= count
    /\ \E o \in FileAction(disk[sw.next], sw.vals, scope, sw.action, keyOK) :
         LET f == sw.next
             entry == [file |-> f, err |-> o.err, buf |-> o.buf,
                       crash |-> o.crash]
         IN  IF o.crash # ""
             THEN /\ proc' = o.crash
                  /\ disk' = disk
                  /\ sw' = [sw EXCEPT !.log = Append(@, entry)]
             ELSE IF SweepWriteFails(disk[f], sw.action)
             THEN /\ proc' = "FATAL"
                  /\ disk' = disk
                  /\ sw' = [sw EXCEPT !.log = Append(@, entry), !.vals = o.vals]
             ELSE /\ proc' = proc
                  /\ disk' = [disk EXCEPT ![f] = SweepWrite(@, o, sw.action)]
                  /\ sw' = [sw EXCEPT !.log = Append(@, entry), !.vals = o.vals,
                                      !.next = @ + 1]
    /\ UNCHANGED <<cmd, scope, keyOK, count, cores, disk0, limChan, drv, wk>>

\* Sls.ProcessDir returns after the last file, and the command with it
SweepDone ==
    /\ proc = "run" /\ cmd = "sweep" /\ drv.pc = "range" /\ sw.next > count
    /\ proc' = "exit"
    /\ UNCHANGED <<cmd, scope, keyOK, count, cores, disk, disk0, limChan, drv, wk, sw>>

NextSweep == SweepStat \/ SweepFile \/ SweepDone

SpecSweep == InitSweep /\ [][NextSweep]_vars

\* the rotate command and the recurse subcommands together
InitBatch == InitSweep \/ InitRotate
NextBatch == NextRotate \/ NextSweep
SpecBatch == InitBatch /\ [][NextBatch]_vars

(* ------------------------- single-file commands ----------------------- *)
\* encrypt all / decrypt all (main.go): path 1 is inputFilePath, drv.next
\* the path outputFilePath names: path 1 with --update, else path 2
InitFile ==
    /\ cmd = "file"
    /\ scope \in Scopes
    /\ keyOK \in BOOLEAN
    /\ count = 2 /\ cores = 1
    /\ disk \in [1..2 -> OneFiles]
    /\ disk[2] \in {NoFile, ReadOnly, Regular(Text(DocGood))}
    /\ disk0 = disk
    /\ limChan = [len |-> 0, cap |-> 1, closed |-> FALSE]
    /\ \E out \in 1..2 : drv = [pc |-> "orch", next |-> out, dir |-> "dir"]
    /\ wk = [f \in 1..2 |-> Idle]
    /\ sw \in {[NoSweep EXCEPT !.action = a] : a \in {encrypt, decrypt}}
    /\ proc = "run"

\* buffer, err := s.CipherTextYamlBuffer(inputFilePath), or PlainText...
FileRun ==
    /\ proc = "run" /\ cmd = "file" /\ drv.pc = "orch"
    /\ \E o \in FileAction(disk[1], sw.vals, scope, sw.action, keyOK) :
         /\ sw' = [sw EXCEPT !.vals = o.vals,
                             !.log = Append(@, [file |-> 1, err |-> o.err,
                                                buf |-> o.buf, crash |-> o.crash])]
         /\ proc' = IF o.crash # "" THEN o.crash ELSE proc
         /\ drv' = [drv EXCEPT !.pc = IF o.crash # "" THEN @ ELSE "write"]
    /\ UNCHANGED <<cmd, scope, keyOK, count, cores, disk, disk0, limChan, wk>>

\* safeWrite writing the buffer before it looks at err
SafeWrite_WriteFirst ==
    /\ proc = "run" /\ cmd = "file" /\ drv.pc = "write"
    /\ IF WriteError(disk[drv.next]) # ""
       THEN proc' = "FATAL" /\ disk' = disk /\ drv' = drv
       ELSE /\ disk' = [disk EXCEPT ![drv.next] = Written(@, sw.log[1].buf)]
            /\ IF sw.log[1].err # ""
               THEN proc' = "FATAL" /\ drv' = drv
               ELSE proc' = proc /\ drv' = [drv EXCEPT !.pc = "written"]
    /\ UNCHANGED <<cmd, scope, keyOK, count, cores, disk0, limChan, wk, sw>>

\* safeWrite(buffer, err): logger.Fatalf on err, else
\* sls.WriteSlsFile(buffer, outputFilePath)
SafeWrite ==
    /\ proc = "run" /\ cmd = "file" /\ drv.pc = "write"
    /\ IF sw.log[1].err # "" \/ WriteError(disk[drv.next]) # ""
       THEN proc' = "FATAL" /\ disk' = disk /\ drv' = drv
       ELSE /\ proc' = proc
            /\ disk' = [disk EXCEPT ![drv.next] = Written(@, sw.log[1].buf)]
            /\ drv' = [drv EXCEPT !.pc = "written"]
    /\ UNCHANGED <<cmd, scope, keyOK, count, cores, disk0, limChan, wk, sw>>

\* the action returns nil and the command ends
FileDone ==
    /\ proc = "run" /\ cmd = "file" /\ drv.pc = "written"
    /\ proc' = "exit"
    /\ UNCHANGED <<cmd, scope, keyOK, count, cores, disk, disk0, limChan, drv, wk, sw>>

NextFile == FileRun \/ SafeWrite \/ FileDone

SpecFile == InitFile /\ [][NextFile]_vars

(* ------------------------- reporting commands ------------------------- *)
\* keys all, decrypt path and keys path (main.go) on the file at path 1
InitReport ==
    /\ cmd \in {"keysAll", "path"}
    /\ scope \in Scopes
    /\ keyOK \in BOOLEAN
    /\ count = 1 /\ cores = 1
    /\ disk \in [1..1 -> OneFiles \cup {Regular(Text(DocColon))}]
    /\ disk0 = disk
    /\ limChan = [len |-> 0, cap |-> 1, closed |-> FALSE]
    /\ drv = [pc |-> "cmd", next |-> 1, dir |-> "dir"]
    /\ wk = [f \in 1..1 |-> Idle]
    /\ sw = NoSweep
    /\ proc = "run"

\* keys all: buffer, err := s.KeysForYamlBuffer(inputFilePath); logger.Fatal
\* on err, else the buffer is printed and the command ends
KeysAll ==
    /\ proc = "run" /\ cmd = "keysAll" /\ drv.pc = "cmd"
    /\ \E o \in FileAction(disk[1], sw.vals, scope, validate, keyOK) :
         /\ sw' = [sw EXCEPT !.action = validate, !.vals = o.vals,
                             !.log = Append(@, [file |-> 1, err |-> o.err,
                                                buf |-> o.buf, crash |-> o.crash])]
         /\ proc' = IF o.crash # "" THEN o.crash
                    ELSE IF o.err # "" THEN "FATAL" ELSE "exit"
    /\ UNCHANGED <<cmd, scope, keyOK, count, cores, disk, disk0, limChan, drv, wk>>

\* the paths given with -p
Paths == {"secure_vars", "secure_vars:a", "other", "grp:sub", "absent"}
\* strings.Split(path, ":") for them
PathRoute(path) ==
    CASE path = "secure_vars:a" -> <<"secure_vars", "a">>
      [] OTHER -> Split(path)

\* decrypt path / keys path: s.ReadSlsFile(inputFilePath), logger.Fatal on
\* err, then pathAction: the value at the path is walked and printed, or a
\* warning is logged when there is none
PathCmd ==
    /\ proc = "run" /\ cmd = "path" /\ drv.pc = "cmd"
    /\ \E action \in {decrypt, validate}, path \in Paths :
         LET r == ReadSlsFile(disk[1], sw.vals)
             vals == Dig(MapV(r.vals), PathRoute(path))
         IN  IF r.err # ""
             THEN /\ proc' = "FATAL"
                  /\ sw' = [sw EXCEPT !.action = action, !.vals = r.vals,
                                      !.log = Append(@, [file |-> 1, err |-> r.err,
                                                         buf |-> EmptyBuffer,
                                                         crash |-> ""])]
             ELSE \E res \in (IF vals = Nil THEN {Nil}
                               ELSE ProcessValues(vals, action, keyOK)) :
                    /\ proc' = IF IsCrash(res) THEN res.t ELSE "exit"
                    /\ sw' = [sw EXCEPT !.action = action, !.vals = r.vals,
                                        !.log = Append(@, [file |-> 1, err |-> "",
                                                           buf |-> EmptyBuffer,
                                                           crash |-> IF IsCrash(res)
                                                                     THEN res.t ELSE ""])]
    /\ UNCHANGED <<cmd, scope, keyOK, count, cores, disk, disk0, limChan, drv, wk>>

\* the commands that report: the recurse subcommands (keys recurse among
\* them), keys all and the path subcommands
NextReport == NextSweep \/ KeysAll \/ PathCmd
InitReporting == InitSweep \/ InitReport
SpecReport == InitReporting /\ [][NextReport]_vars

(* ------------------------------ the walker ---------------------------- *)
\* an Sls that reads a document (Sls.ReadBytes) and is then asked to
\* PerformAction up to MaxWalks times, as Sls.RotateFile does twice; sw.log
\* keeps, per call, the action, Yaml.Values before (from) and after (to),
\* the buffer returned and how the call ended
InitWalk ==
    /\ cmd = "walk"
    /\ scope \in Scopes
    /\ keyOK \in BOOLEAN
    /\ count = 1 /\ cores = 1
    /\ disk \in [1..1 -> {Regular(Text(d)) : d \in WalkDocs}]
    /\ disk0 = disk
    /\ limChan = [len |-> 0, cap |-> 1, closed |-> FALSE]
    /\ drv = [pc |-> "read", next |-> 1, dir |-> "dir"]
    /\ wk = [f \in 1..1 |-> Idle]
    /\ sw = NoSweep
    /\ proc = "run"

\* Sls.ReadBytes of the document
WalkRead ==
    /\ proc = "run" /\ cmd = "walk" /\ drv.pc = "read"
    /\ sw' = [sw EXCEPT !.vals = ReadBytes(disk[1].data).vals]
    /\ drv' = [drv EXCEPT !.pc = "walk"]
    /\ UNCHANGED <<cmd, scope, keyOK, count, cores, disk, disk0, limChan, wk, proc>>

\* one call of Sls.PerformAction(a)
Walk ==
    /\ proc = "run" /\ cmd = "walk" /\ drv.pc = "walk"
    /\ Len(sw.log) < MaxWalks
    /\ \E a \in Actions \cup {"rotate"} :
         \E o \in PerformAction(sw.vals, scope, a, keyOK) :
           /\ sw' = [sw EXCEPT !.action = a, !.vals = o.vals,
                               !.log = Append(@, [action |-> a, from |-> sw.vals,
                                                  to |-> o.vals, buf |-> o.buf,
                                                  crash |-> o.crash])]
           /\ proc' = IF o.crash # "" THEN o.crash ELSE proc
    /\ UNCHANGED <<cmd, scope, keyOK, count, cores, disk, disk0, limChan, drv, wk>>

NextWalk == WalkRead \/ Walk

SpecWalk == InitWalk /\ [][NextWalk]_vars

(* ------------------------ what the claims speak of -------------------- *)
\* the top-level keys the walker transforms
InScopeKeys(doc) == IF scope = "" THEN DOMAIN doc ELSE DOMAIN doc \cap {scope}

\* the PGP messages beneath a value
RECURSIVE CtLeaves(_)
CtLeaves(v) ==
    CASE v.t = "ct" -> {v}
      [] v.t = "map" -> UNION {CtLeaves(v.kv[k]) : k \in DOMAIN v.kv}
      [] v.t = "seq" -> UNION {CtLeaves(v.items[i]) : i \in 1..Len(v.items)}
      [] OTHER -> {}
CtInScope(doc) == UNION {CtLeaves(doc[k]) : k \in InScopeKeys(doc)}

\* new is old with every message re-encrypted to NewKey over the same
\* plaintext; a plaintext string may also have been encrypted to NewKey;
\* everything else is as it was
RECURSIVE RotatedValue(_, _)
RotatedValue(old, new) ==
    CASE old.t = "ct" -> new = Ct(NewKey, old.pt)
      [] old.t = "str" -> new = old \/ new = Ct(NewKey, old)
      [] old.t = "map" -> /\ new.t = "map"
                          /\ DOMAIN new.kv = DOMAIN old.kv
                          /\ \A k \in DOMAIN old.kv : RotatedValue(old.kv[k], new.kv[k])
      [] old.t = "seq" -> /\ new.t = "seq"
                          /\ Len(new.items) = Len(old.items)
                          /\ \A i \in 1..Len(old.items) :
                               RotatedValue(old.items[i], new.items[i])
      [] OTHER -> new = old
RotatedDoc(old, new) ==
    /\ DOMAIN new = DOMAIN old
    /\ \A k \in DOMAIN old :
         IF k \in InScopeKeys(old) THEN RotatedValue(old[k], new[k])
         ELSE new[k] = old[k]

\* somewhere new holds, where old held a message, that message's plaintext
RECURSIVE Exposed(_, _)
Exposed(old, new) ==
    CASE old.t = "ct" -> new = old.pt
      [] old.t = "map" /\ new.t = "map" ->
           \E k \in DOMAIN old.kv \cap DOMAIN new.kv : Exposed(old.kv[k], new.kv[k])
      [] old.t = "seq" /\ new.t = "seq" ->
           \E i \in 1..Len(old.items) :
               i <= Len(new.items) /\ Exposed(old.items[i], new.items[i])
      [] OTHER -> FALSE
ExposedDoc(old, new) ==
    \E k \in DOMAIN old \cap DOMAIN new : Exposed(old[k], new[k])

\* the files whose goroutine was started and has not given its slot back
MidRotation == {f \in 1..count : wk[f].pc # "idle" /\ wk[f].sent = 0}

HasInclude(lines) == \E i \in 1..Len(lines) : lines[i] = "include"
ScanErrors == {"contains include directives", "token too long"}

(* ------------------------------ claims -------------------------------- *)
\* C1: when the decrypt-in-memory step of a rotation returned an error for a
\* file, that file's bytes on disk are those it had before the rotation.
C1_FailedDecryptWritesNothing ==
    \A f \in 1..count : wk[f].err # "" => disk[f] = disk0[f]

\* C2: a file a rotation has written (its decrypt step having reported no
\* error) held no message in scope that could not be decrypted, and every
\* message in scope it now holds is to the new recipient key.
C2_NoPartialRotationWritten ==
    \A f \in 1..count :
        wk[f].writes > 0 /\ wk[f].err = "" =>
            /\ \A c \in CtInScope(disk0[f].data.doc) : c.key \in SecRing
            /\ \A c \in CtInScope(disk[f].data.doc) : c.key = NewKey

\* C3: when the re-encrypt step of a rotation failed after the decrypt step
\* succeeded, the file's bytes on disk are those it had before the rotation.
C3_FailedReencryptWritesNothing ==
    \A f \in 1..count :
        wk[f].encFailed /\ wk[f].err = "" => disk[f] = disk0[f]
\* C3's case: a rotation whose decrypt step succeeded and whose re-encrypt
\* step failed on a document holding a message
C3_Witness ==
    \E f \in 1..count :
        /\ wk[f].encFailed /\ wk[f].err = "" /\ proc = "FATAL"
        /\ CtInScope(disk0[f].data.doc) # {}

\* C4: after a successful rotation of a file (no error reported, every
\* message in scope decryptable, to a text without the PGP header) each
\* message in scope is re-encrypted to the new key over the same plaintext
\* and the rest of the document is unchanged (a plaintext string in scope
\* is let pass as encrypted to the new key too).
C4_RotationKeepsDocument ==
    \A f \in 1..count :
        /\ wk[f].pc \in {"send", "done"} /\ wk[f].err = ""
        /\ \A c \in CtInScope(disk0[f].data.doc) :
               c.key \in SecRing /\ ~isEncrypted(c.pt)
        => RotatedDoc(disk0[f].data.doc, disk[f].data.doc)

\* C5: a rotation writes a file at most once, and no file on disk ever holds
\* in plaintext a value that was a message before the rotation.
C5_NoPlaintextPersisted ==
    \A f \in 1..count :
        /\ wk[f].writes <= 1
        /\ ~ExposedDoc(disk0[f].data.doc, disk[f].data.doc)

\* C6: in directory rotation at most cores files are mid-rotation at once.
C6_AtMostKMidRotation ==
    cmd = "rotateDir" => Cardinality(MidRotation) <= cores
\* C6's case: the pool is full and the driver waits with a file to dispatch
C6_Witness ==
    /\ cmd = "rotateDir" /\ proc = "run"
    /\ Cardinality(MidRotation) = cores
    /\ drv.pc = "loop" /\ drv.next <= count /\ limChan.len = 0

\* C7: every rotation worker gives its slot back exactly once before it
\* exits (no send panics), and when the run has ended all cores slots are back.
C7_EverySlotReleased ==
    cmd = "rotateDir" =>
        /\ \A f \in 1..count : wk[f].pc # "sendpanic" /\ wk[f].sent <= 1
        /\ proc = "exit" =>
             /\ \A f \in 1..count : wk[f].sent = 1
             /\ limChan.len = cores

\* C8: in an encrypt or decrypt sweep a file whose orchestration returned an
\* error keeps the bytes it had.
C8_FailedFileSkipped ==
    sw.action \in {encrypt, decrypt} =>
        \A i \in 1..Len(sw.log) :
            sw.log[i].err # "" => disk[sw.log[i].file] = disk0[sw.log[i].file]

\* C9: the files are attempted once each in enumeration order, and a file
\* whose orchestration returned an error does not end the sweep: the sweep
\* goes on to the next file, and ends only when all were attempted.
C9_BatchSurvivesFailure ==
    /\ \A i \in 1..Len(sw.log) : sw.log[i].file = i
    /\ Len(sw.log) > 0 /\ sw.log[Len(sw.log)].err # "" =>
         IF proc = "run" THEN sw.next = Len(sw.log) + 1
         ELSE Len(sw.log) = count

\* C10: for every action a document with a line holding include: is
\* rejected with an error and an empty buffer, and a document without such
\* a line is not rejected by the scan.
C10_IncludeRejection ==
    \A i \in 1..Len(sw.log) :
        LET lines == disk0[sw.log[i].file].data.lines
        IN  /\ HasInclude(lines) =>
                 sw.log[i].err # "" /\ sw.log[i].buf = EmptyBuffer
            /\ ~HasInclude(lines) => sw.log[i].err \notin ScanErrors

(* ------------------- claims about the walker (SpecWalk) --------------- *)
\* whether walking v under action a can end the process
CanCrash(v, a) == \E r \in ProcessValues(v, a, keyOK) : IsCrash(r)

\* C11: with a scope set, after every call of PerformAction that returned,
\* each top-level key other than the scope holds the value it held before;
\* and a call ends the process only if walking the value under the scope
\* does (no primitive runs on a scalar under another key).
C11_ScopeIsolation ==
    cmd = "walk" /\ scope # "" =>
      \A i \in 1..Len(sw.log) :
        LET e == sw.log[i]
        IN /\ e.crash = "" =>
                /\ DOMAIN e.to = DOMAIN e.from
                /\ \A k \in DOMAIN e.from \ {scope} : e.to[k] = e.from[k]
           /\ e.crash # "" =>
                /\ scope \in DOMAIN e.from
                /\ CanCrash(GetValueFromPath(e.from, scope), e.action)

\* a and b have the same nesting, the same keys in every mapping and the
\* same length in every sequence
RECURSIVE SameShape(_, _)
SameShape(a, b) ==
    CASE a.t = "map" -> /\ b.t = "map"
                        /\ DOMAIN b.kv = DOMAIN a.kv
                        /\ \A k \in DOMAIN a.kv : SameShape(a.kv[k], b.kv[k])
      [] a.t = "seq" -> /\ b.t = "seq"
                        /\ Len(b.items) = Len(a.items)
                        /\ \A j \in 1..Len(a.items) : SameShape(a.items[j], b.items[j])
      [] OTHER -> b.t \notin {"map", "seq"}

\* C12: after every call of PerformAction that returned, the value under each
\* top-level key the walker was given has the shape of the value it was given.
C12_ShapePreserved ==
    cmd = "walk" =>
      \A i \in 1..Len(sw.log) :
        LET e == sw.log[i]
        IN e.crash = "" /\ validAction(e.action) =>
             \A k \in InScopeKeys(e.from) :
                 SameShape(GetValueFromPath(e.from, k), e.to[k])

\* wherever old holds a PGP message, new holds that message
RECURSIVE CtKept(_, _)
CtKept(old, new) ==
    CASE old.t = "ct" -> new = old
      [] old.t = "map" /\ new.t = "map" ->
           \A k \in DOMAIN old.kv \cap DOMAIN new.kv : CtKept(old.kv[k], new.kv[k])
      [] old.t = "seq" /\ new.t = "seq" ->
           \A j \in 1..Len(old.items) :
               j <= Len(new.items) => CtKept(old.items[j], new.items[j])
      [] OTHER -> TRUE

\* C13: a call of PerformAction("encrypt") that returned left every PGP
\* message in scope as it was, and a second encrypt right after it returns
\* too and leaves the document as the first made it.
C13_EncryptIdempotent ==
    cmd = "walk" =>
      \A i \in 1..Len(sw.log) :
        LET e == sw.log[i]
        IN e.action = encrypt /\ e.crash = "" =>
             /\ \A k \in InScopeKeys(e.from) \cap DOMAIN e.to :
                    CtKept(GetValueFromPath(e.from, k), e.to[k])
             /\ i < Len(sw.log) /\ sw.log[i + 1].action = encrypt =>
                    /\ sw.log[i + 1].crash = ""
                    /\ sw.log[i + 1].to = e.to

\* every scalar beneath v is a string that does not begin with the header
RECURSIVE AllPlain(_)
AllPlain(v) ==
    CASE v.t = "str" -> v.hdr # "prefix"
      [] v.t = "map" -> \A k \in DOMAIN v.kv : AllPlain(v.kv[k])
      [] v.t = "seq" -> \A j \in 1..Len(v.items) : AllPlain(v.items[j])
      [] OTHER -> FALSE

\* C14: with a key that can be encrypted to and whose private key is in the
\* secret ring, PerformAction("encrypt") on a document of plaintext strings
\* returns, and a PerformAction("decrypt") right after it returns with the
\* document as it was before the encrypt.
C14_DecryptInvertsEncrypt ==
    cmd = "walk" /\ keyOK /\ NewKey \in SecRing =>
      \A i \in 1..Len(sw.log) :
        LET e == sw.log[i]
        IN e.action = encrypt /\ (\A k \in DOMAIN e.from : AllPlain(e.from[k])) =>
             /\ e.crash = ""
             /\ i < Len(sw.log) /\ sw.log[i + 1].action = decrypt =>
                    /\ sw.log[i + 1].crash = ""
                    /\ sw.log[i + 1].to = e.from

\* C15: the buffer a returned PerformAction hands back begins with the marker
\* line and a blank line unless the action is validate, and for validate it
\* holds no marker line.
C15_MarkerUnlessValidate ==
    cmd = "walk" =>
      \A i \in 1..Len(sw.log) :
        LET e == sw.log[i]
        IN e.crash = "" =>
             IF e.action = validate
             THEN \A j \in 1..Len(e.buf.lines) : e.buf.lines[j] # "marker"
             ELSE /\ Len(e.buf.lines) >= 2
                  /\ e.buf.lines[1] = "marker" /\ e.buf.lines[2] = "blank"
\* C15's case: a validate and another action have both returned a buffer
C15_Witness ==
    /\ cmd = "walk" /\ Len(sw.log) = 2
    /\ sw.log[1].action = validate /\ sw.log[1].crash = ""
    /\ sw.log[2].action = encrypt /\ sw.log[2].crash = ""
    /\ sw.log[2].to # EmptyMap

\* no scalar beneath v is a PGP message or holds the header text
RECURSIVE NoCipher(_)
NoCipher(v) ==
    CASE IsString(v) -> ~isEncrypted(v)
      [] v.t = "map" -> \A k \in DOMAIN v.kv : NoCipher(v.kv[k])
      [] v.t = "seq" -> \A j \in 1..Len(v.items) : NoCipher(v.items[j])
      [] OTHER -> TRUE

\* C16: with no scope, PerformAction("validate") on a document without
\* ciphertext returns, and under every key the value is the one walked.
C16_IdentifyRoundTrip ==
    cmd = "walk" /\ scope = "" =>
      \A i \in 1..Len(sw.log) :
        LET e == sw.log[i]
        IN e.action = validate /\ (\A k \in DOMAIN e.from : NoCipher(e.from[k])) =>
             /\ e.crash = ""
             /\ \A k \in DOMAIN e.from : e.to[k] = GetValueFromPath(e.from, k)

\* some sequence beneath v holds a nil element (the walker itself panics there)
RECURSIVE HasNilItem(_)
HasNilItem(v) ==
    CASE v.t = "map" -> \E k \in DOMAIN v.kv : HasNilItem(v.kv[k])
      [] v.t = "seq" -> \E j \in 1..Len(v.items) :
                            v.items[j].t = "nil" \/ HasNilItem(v.items[j])
      [] OTHER -> FALSE

\* C18: a call of PerformAction on a document the walker itself can walk
\* (no nil sequence element) never ends the process, whatever the crypto
\* primitives do on its scalars.
C18_PrimitiveFailureRecoverable ==
    cmd = "walk" =>
      \A i \in 1..Len(sw.log) :
        LET e == sw.log[i]
        IN (\A k \in DOMAIN e.from : ~HasNilItem(e.from[k])) => e.crash = ""

(* ---------------- claims about the batch drivers (SpecBatch) ---------- *)
\* the path given with -d is not a directory, or no file under it is named
\* like an sls file
BadBatch ==
    /\ cmd \in {"rotateDir", "sweep"}
    /\ drv.dir \in {"file", "none"} \/ count = 0

\* C17: a directory rotation or sweep whose path is not a directory or holds
\* no sls file never gets past its checks: either the checks are still to
\* run or the process has ended in logger.Fatal; no file is changed, no
\* orchestration has run, no slot was made and no worker was started.
C17_PreconditionFatalBeforeWork ==
    BadBatch =>
      /\ proc \in {"run", "FATAL"}
      /\ drv.pc = "stat"
      /\ disk = disk0
      /\ sw.log = <<>> /\ sw.vals = EmptyMap
      /\ limChan.len = 0
      /\ \A f \in 1..count : wk[f] = Idle
\* C17's cases: the fatal exit of a rotation given a directory without sls
\* files, and of a sweep given a regular file
C17_Witness ==
    /\ BadBatch /\ proc = "FATAL"
    /\ \/ cmd = "rotateDir" /\ drv.dir = "dir" /\ count = 0
       \/ cmd = "sweep" /\ drv.dir = "file" /\ count = 1

(* ------------- claims about the single-file commands (SpecFile) ------- *)
\* C19: when the orchestration of encrypt all / decrypt all returned an
\* error, the command does not get past safeWrite (it is about to end, or has
\* ended, in logger.Fatal) and every path holds the bytes it held.
C19_OrchestratorErrorWritesNothing ==
    cmd = "file" /\ Len(sw.log) > 0 /\ sw.log[1].err # "" =>
      /\ proc \in {"run", "FATAL"}
      /\ drv.pc = "write"
      /\ disk = disk0
\* C19's case: an input with an include line under --update, ended fatally
C19_Witness ==
    /\ cmd = "file" /\ Len(sw.log) > 0
    /\ sw.log[1].err = "contains include directives"
    /\ drv.next = 1 /\ disk0[1].w
    /\ proc = "FATAL"

\* C20: a decrypt orchestration that returned for a file holding, in scope, a
\* message the secret ring cannot decrypt, returned an error.
C20_DecryptFailureReturned ==
    cmd = "file" /\ sw.action = decrypt /\ Len(sw.log) > 0 =>
      LET e == sw.log[1]
      IN e.crash = "" /\ (\E c \in CtInScope(disk0[1].data.doc) : c.key \notin SecRing)
           => e.err # ""

(* --------------- claims about the walker, continued (SpecWalk) -------- *)
\* C22: what a call of PerformAction did (the document it left and whether
\* it ended the process) is what every visiting order of the mappings does
\* on the same document.
C22_OrderIndependent ==
    cmd = "walk" =>
      \A i \in 1..Len(sw.log) :
        LET e == sw.log[i]
        IN \A o \in PerformAction(e.from, scope, e.action, keyOK) :
               o.crash = e.crash /\ (e.crash = "" => o.vals = e.to)

\* new holds nil wherever old holds nil, at the same position of a sequence
\* of the same length
RECURSIVE NilItemsKept(_, _)
NilItemsKept(old, new) ==
    CASE old.t = "seq" ->
           /\ new.t = "seq" /\ Len(new.items) = Len(old.items)
           /\ \A j \in 1..Len(old.items) :
                IF old.items[j].t = "nil" THEN new.items[j].t = "nil"
                ELSE NilItemsKept(old.items[j], new.items[j])
      [] old.t = "map" /\ new.t = "map" ->
           \A k \in DOMAIN old.kv \cap DOMAIN new.kv : NilItemsKept(old.kv[k], new.kv[k])
      [] OTHER -> TRUE

\* C23: a call of PerformAction on a document with a nil sequence element in
\* scope returns (unless a primitive ends it), with the nil elements where
\* they were and every such sequence as long as it was.
C23_NilElementPassesThrough ==
    cmd = "walk" =>
      \A i \in 1..Len(sw.log) :
        LET e == sw.log[i]
        IN validAction(e.action)
           /\ (\E k \in InScopeKeys(e.from) : HasNilItem(e.from[k])) =>
             /\ e.crash # "PANIC"
             /\ e.crash = "" =>
                  \A k \in InScopeKeys(e.from) : NilItemsKept(e.from[k], e.to[k])

\* the string scalars beneath a value
RECURSIVE StrLeaves(_)
StrLeaves(v) ==
    CASE IsString(v) -> {v}
      [] v.t = "map" -> UNION {StrLeaves(v.kv[k]) : k \in DOMAIN v.kv}
      [] v.t = "seq" -> UNION {StrLeaves(v.items[j]) : j \in 1..Len(v.items)}
      [] OTHER -> {}
\* the string begins with the PGP message header
BeginsWithHeader(v) == v.t = "ct" \/ (v.t = "str" /\ v.hdr = "prefix")

\* C24: after a call of PerformAction("encrypt") that returned, every string
\* scalar in scope begins with the PGP message header.
C24_EncryptSkipsOnPrefixOnly ==
    cmd = "walk" =>
      \A i \in 1..Len(sw.log) :
        LET e == sw.log[i]
        IN e.action = encrypt /\ e.crash = "" =>
             \A k \in InScopeKeys(e.to) :
               \A v \in StrLeaves(e.to[k]) : BeginsWithHeader(v)

(* -------------- claims about the reporting commands (SpecReport) ------ *)
\* the command is keys recurse, keys all, decrypt path or keys path
Reporting ==
    \/ cmd = "sweep" /\ sw.action = validate
    \/ cmd \in {"keysAll", "path"}

\* C25: during and after a validate sweep, keys all and the path commands
\* every file holds the bytes it held when the command started.
C25_ValidateReadOnly == Reporting => disk = disk0
\* C25's case: a validate sweep that ran to its end over a writable file
\* whose orchestration failed and a file whose orchestration succeeded
C25_Witness ==
    /\ cmd = "sweep" /\ sw.action = validate /\ proc = "exit"
    /\ Len(sw.log) = 2
    /\ sw.log[1].err # "" /\ disk0[1].w
    /\ sw.log[2].err = "" /\ sw.log[2].buf # EmptyBuffer

(* ------------- claims about rotation, continued (SpecRotate) ---------- *)
\* the buffers a rotation of the file alone can write: its decrypt step on
\* a fresh Sls, then the encrypt step on what that left
RotationOutputs(file) ==
    {e.buf : e \in {x \in UNION {PerformAction(d.vals, scope, encrypt, keyOK) :
                                   d \in {y \in FileAction(file, EmptyMap, scope,
                                                           decrypt, keyOK) :
                                            y.crash = ""}} :
                      x.crash = ""}}

\* C26: in a directory rotation, whatever the interleaving, a file no worker
\* has opened for writing holds its bytes, a file being written is the
\* truncated file, and a written file holds a buffer that the rotation of
\* its own pre-rotation content alone can produce.
C26_WorkersShareNoDocument ==
    cmd = "rotateDir" =>
      \A f \in 1..count :
        CASE wk[f].pc \in {"idle", "read", "enc", "open", "dead"} ->
               disk[f] = disk0[f]
          [] wk[f].pc = "data" -> disk[f] = Truncated(disk0[f])
          [] OTHER -> \E b \in RotationOutputs(disk0[f]) :
                          disk[f] = Written(disk0[f], b)
\* C26's case: two workers on files of different content, one has written
\* its file while the other is in the middle of writing its own
C26_Witness ==
    /\ cmd = "rotateDir" /\ count = 2 /\ proc = "run"
    /\ disk0[1] # disk0[2]
    /\ wk[1].pc = "data" /\ wk[2].pc = "send"
    /\ wk[1].buf # wk[2].buf

\* C27: in a directory rotation no worker sends on the closed channel; the
\* channel is closed only when every worker has written its file and given
\* its slot back, and so has every worker when the command has returned.
C27_CloseAfterWorkers ==
    cmd = "rotateDir" =>
      /\ \A f \in 1..count : wk[f].pc # "sendpanic"
      /\ limChan.closed \/ proc = "exit" =>
           \A f \in 1..count : wk[f].pc = "done" /\ wk[f].writes = 1

(* ------------- claims about fair rotation runs (SpecRotateFair) ------- *)
\* C21: a single-file rotation comes to an end, and a rotation of a
\* directory holding sls files comes to the point where every enumerated
\* file was dispatched and the command has returned.
C21_RotationReturns ==
    /\ cmd = "rotateFile" => <>(proc # "run")
    /\ cmd = "rotateDir" /\ drv.dir = "dir" /\ count > 0 =>
           <>(proc = "exit" /\ drv.next > count)

\* every fair run of a rotation ends: the command returns or the process is
\* ended by logger.Fatal or a panic; no run waits for a slot forever
RotationTerminates == <>(proc # "run")

=============================================================================
